---- MODULE Spec2Model ----
(***************************************************************************)
(* Research session lifecycle of open-deep-research: the in-memory         *)
(* document store (lib/db/queries), the timeout-extension map and the      *)
(* termination helpers (lib/research-utils), the /api/research route, and  *)
(* the worker poll contract that drives a session; the countdown presenter *)
(* of the client (ResearchControls); and the user, chat, message and vote  *)
(* arrays of lib/db/queries with the default-user initialization.          *)
(***************************************************************************)
EXTENDS Integers, Sequences, FiniteSets, TLC

VARIABLES
    inMemoryDocuments,  \* the array of saved documents, in push order
    timeoutExtensions,  \* keys of the Map<string, boolean> that hold true
    worker,             \* per session id: the worker's in-memory research state
    term,               \* per caller: a requestTermination call suspended at its await
    resp,               \* the last HTTP response produced by the route
    now,                \* wall clock, in seconds
    unobserved,         \* per id: an extension request no check has returned yet
    reqSince,           \* per id: successful extend_timeout calls since the last clear
    collapsed,          \* per id: the requests the last clear answered with one grant
    terminated,         \* per id: an owner's terminate of a running session returned success
    controls,           \* the ResearchControls component: props and React state
    clientNow,          \* wall clock of the browser, in seconds
    inMemoryUsers,      \* the array of users, in push order
    ensure,             \* per call site: an ensureDefaultUserExists call suspended at its await
    inMemoryChats,      \* the array of chats, in push order
    inMemoryMessages,   \* the array of messages, in push order
    inMemoryVotes       \* the array of votes, in push order

researchVars == <<inMemoryDocuments, timeoutExtensions, worker, term, resp, now,
                  unobserved, reqSince, collapsed, terminated>>
clientVars == <<controls, clientNow>>
dbVars == <<inMemoryUsers, ensure, inMemoryChats, inMemoryMessages, inMemoryVotes>>

vars == <<researchVars, clientVars, dbVars>>

----------------------------------------------------------------------------
(* Bounds of the model *)

MaxDocs == 4       \* documents the store may hold
MaxNow == 270      \* last instant of the wall clock
MaxSteps == 2      \* totalExpectedSteps of a session
MaxReq == 2        \* cap of the reqSince counter
UnitsPerSecond == 2   \* resolution of the browser clock: units of 500 ms
ShortTimeLimit == 60  \* a timeLimit prop below the extend threshold
MaxLate == 1          \* units by which an interval callback may fire late
MaxExtends == 1       \* extensions a mounted presenter asks for
MaxUsers == 3         \* users the store may hold
MaxMessages == 3      \* messages the store may hold

(* Program constants *)

DefaultTimeLimit == 270   \* default budget, seconds
ExtensionGrant == 300     \* seconds granted per consumed extension signal
TickSeconds == 90         \* granularity of the modelled clock
ExtendThreshold == 90     \* the extend button is shown below this many seconds

Users == {"u1", "u2"}
NoUser == "none"                    \* auth() yields no session.user.id
Callers == Users \cup {NoUser}
Ids == {"r1", "r2"}                 \* research ids a request may name
SessionIds == {"r1"}                \* ids under which a job is submitted
Topics == {"topic"}

Terminal == {"manually_terminated", "timed_out", "completed"}
Statuses == {"pending", "running"} \cup Terminal

----------------------------------------------------------------------------
(* lib/db/queries: the document store *)

RECURSIVE findIndexFrom(_, _, _)
findIndexFrom(docs, id, i) ==
    IF i > Len(docs) THEN 0
    ELSE IF docs[i].id = id THEN i
    ELSE findIndexFrom(docs, id, i + 1)

\* Array.prototype.find: the FIRST element with the id, <<>> for null
getDocumentById(docs, id) ==
    LET i == findIndexFrom(docs, id, 1)
    IN  IF i = 0 THEN << >> ELSE << docs[i] >>

\* inMemoryDocuments.filter(d => d.id === id): every saved version
getDocumentsById(docs, id) == SelectSeq(docs, LAMBDA d : d.id = id)

\* inMemoryDocuments.push(doc): always appends, whatever ids are present
saveDocument(docs, id, title, kind, content, userId) ==
    Append(docs, [id |-> id, title |-> title, kind |-> kind,
                  content |-> content, userId |-> userId])

----------------------------------------------------------------------------
(* lib/research-utils: the extension map *)

\* variant: the map is never consulted
checkTimeoutExtension_never(ext, researchId) == FALSE

checkTimeoutExtension(ext, researchId) == researchId \in ext

\* a registry that forgets the other ids' flags on set
requestTimeoutExtension_reset(ext, researchId) == {researchId}

requestTimeoutExtension(ext, researchId) == ext \cup {researchId}

\* variant: the key is left in the map
clearTimeoutExtension_keep(ext, researchId) == ext

clearTimeoutExtension(ext, researchId) == ext \ {researchId}

(* lib/research-utils: termination and state lookup *)

\* content of a document that is not the JSON of a research state
PlainText == [text |-> "draft"]

\* JSON.parse(doc.content): << >> when it throws, else the parsed state; a research
\* state is stored as JSON.stringify wrote it and parses back to the same fields
JSONparse(content) == IF content = PlainText THEN << >> ELSE << content >>

\* JSON.parse(doc.content).status === 'manually_terminated'; false if no doc
checkTerminationStatus(docs, researchId) ==
    LET found == getDocumentById(docs, researchId)
    IN  /\ found # << >>
        /\ JSONparse(found[1].content) # << >>
        /\ JSONparse(found[1].content)[1].status = "manually_terminated"

\* the boolean requestTermination returns for the document it loaded; the catch
\* block turns a throwing JSON.parse into false
requestTerminationResult(found, userId) ==
    /\ found # << >>
    /\ JSONparse(found[1].content) # << >>
    /\ JSONparse(found[1].content)[1].userId = userId

\* variant: the status string the route reports is stored instead
requestTerminationState_routeStatus(researchState) ==
    [researchState EXCEPT !.status = "terminated"]

\* researchState.status = 'manually_terminated'
requestTerminationState(researchState) ==
    [researchState EXCEPT !.status = "manually_terminated"]

\* variant: the document is saved before the ownership check
requestTerminationStore_saveFirst(docs, found, researchId, userId) ==
    IF found # << >> /\ JSONparse(found[1].content) # << >>
    THEN saveDocument(docs, researchId, found[1].title, found[1].kind,
                      requestTerminationState(JSONparse(found[1].content)[1]), userId)
    ELSE docs

\* the store after requestTermination's continuation ran on the loaded document
requestTerminationStore(docs, found, researchId, userId) ==
    IF requestTerminationResult(found, userId)
    THEN saveDocument(docs, researchId, found[1].title, found[1].kind,
                      requestTerminationState(JSONparse(found[1].content)[1]), userId)
    ELSE docs

\* variant: the ownership check is left out
getResearchState_noOwnerCheck(docs, researchId, userId) ==
    LET found == getDocumentById(docs, researchId)
    IN  IF found = << >> THEN << >> ELSE JSONparse(found[1].content)

\* getResearchState: the parsed state, << >> (null) if absent, not owned, or the
\* content does not parse (catch block)
getResearchState(docs, researchId, userId) ==
    LET found == getDocumentById(docs, researchId)
    IN  IF found = << >> THEN << >>
        ELSE IF JSONparse(found[1].content) = << >> THEN << >>
        ELSE IF JSONparse(found[1].content)[1].userId # userId THEN << >>
        ELSE JSONparse(found[1].content)

----------------------------------------------------------------------------
(* app/(chat)/api/research/route.ts: response bodies *)

UnauthorizedBody == "Unauthorized"
TerminateFailedBody == "Failed to terminate research. The research may not exist or you may not have permission."
TerminatedBody == "terminated"
TimeoutExtendedBody == "timeout_extended"
ExtendFailedBody == "Failed to extend timeout"
InvalidActionBody == "Invalid action"
IdRequiredBody == "Research ID required"
NotFoundBody == "Research not found or you do not have permission to access it"
SuccessBody == "success"

NoId == ""                          \* GET without an id parameter
Actions == {"terminate", "extend_timeout", "other"}

\* variant: the whole research state is returned with the progress added
statusProjection_leaks(researchState) ==
    [id |-> researchState.id, status |-> researchState.status,
     topic |-> researchState.topic,
     progress |-> [currentDepth |-> researchState.currentDepth,
                   completedSteps |-> researchState.completedSteps,
                   totalSteps |-> researchState.totalExpectedSteps],
     startTime |-> researchState.startTime,
     timeLimitSeconds |-> researchState.timeLimitSeconds,
     userId |-> researchState.userId]

\* the data object GET builds from the research state
statusProjection(researchState) ==
    [id |-> researchState.id,
     status |-> researchState.status,
     topic |-> researchState.topic,
     progress |-> [currentDepth |-> researchState.currentDepth,
                   completedSteps |-> researchState.completedSteps,
                   totalSteps |-> researchState.totalExpectedSteps],
     startTime |-> researchState.startTime]

\* variant: the switch has no default branch and an unknown action falls through to
\* a success answer
postResponse_noDefault(userId, action, result) ==
    IF userId = NoUser THEN [code |-> 401, body |-> UnauthorizedBody]
    ELSE IF action = "terminate" THEN
        IF ~result THEN [code |-> 404, body |-> TerminateFailedBody]
        ELSE [code |-> 200, body |-> TerminatedBody]
    ELSE IF action = "extend_timeout" THEN
        IF ~result THEN [code |-> 500, body |-> ExtendFailedBody]
        ELSE [code |-> 200, body |-> TimeoutExtendedBody]
    ELSE [code |-> 200, body |-> SuccessBody]

\* status code and body of POST once the action's helper has returned `result`
postResponse(userId, action, result) ==
    IF userId = NoUser THEN [code |-> 401, body |-> UnauthorizedBody]
    ELSE IF action = "terminate" THEN
        IF ~result THEN [code |-> 404, body |-> TerminateFailedBody]
        ELSE [code |-> 200, body |-> TerminatedBody]
    ELSE IF action = "extend_timeout" THEN
        IF ~result THEN [code |-> 500, body |-> ExtendFailedBody]
        ELSE [code |-> 200, body |-> TimeoutExtendedBody]
    ELSE [code |-> 400, body |-> InvalidActionBody]

\* error.message of the SyntaxError request.json() throws
ParseErrorBody == "Unexpected token"

\* POST from `await request.json()` on: a body that is not JSON throws before auth()
\* is called and the catch block answers 500
postRequest(parsable, userId, action, result) ==
    IF ~parsable THEN [code |-> 500, body |-> ParseErrorBody]
    ELSE postResponse(userId, action, result)

\* status code, body and data of GET
getResponse(docs, researchId, userId) ==
    IF researchId = NoId THEN [code |-> 400, body |-> IdRequiredBody, data |-> << >>]
    ELSE IF userId = NoUser THEN [code |-> 401, body |-> UnauthorizedBody, data |-> << >>]
    ELSE LET researchState == getResearchState(docs, researchId, userId)
         IN  IF researchState = << >>
             THEN [code |-> 404, body |-> NotFoundBody, data |-> << >>]
             ELSE [code |-> 200, body |-> SuccessBody,
                   data |-> << statusProjection(researchState[1]) >>]

----------------------------------------------------------------------------
(* State of the sessions as the worker and the store hold it *)

Created(id) == worker[id].pc # "none"
Owner(id) == worker[id].userId

\* what the session named by a request is to its caller when the handler reads the store
Relation(c, id) ==
    IF id \notin Ids \/ ~Created(id) THEN "absent"
    ELSE IF Owner(id) = c THEN "owner" ELSE "foreign"

\* the research state the worker serializes into the document content
workerState(id, w) ==
    [id |-> id, userId |-> w.userId, status |-> w.status, topic |-> w.topic,
     startTime |-> w.startTime, timeLimitSeconds |-> w.timeLimitSeconds,
     currentDepth |-> w.currentDepth, completedSteps |-> w.completedSteps,
     totalExpectedSteps |-> w.totalExpectedSteps]

\* Store.mutate as the worker performs it on the document interface: save(Document)
workerSave(docs, id, w) ==
    saveDocument(docs, id, "research", "text", workerState(id, w), w.userId)

\* the most recently saved version of a session (last element pushed with the id)
latestState(docs, id) ==
    LET versions == getDocumentsById(docs, id)
    IN  versions[Len(versions)].content

IdleWorker ==
    [pc |-> "none", userId |-> NoUser, topic |-> "", startTime |-> 0,
     status |-> "pending", timeLimitSeconds |-> 0, currentDepth |-> 0,
     completedSteps |-> 0, totalExpectedSteps |-> 0, extensionPending |-> FALSE]

IdleTerm == [pc |-> "idle", id |-> NoId, found |-> << >>, rel |-> "absent"]

NoResp ==
    [op |-> "none", caller |-> NoUser, id |-> NoId, code |-> 0, body |-> "",
     data |-> << >>, rel |-> "absent"]

\* the component before it is rendered (isActive false: it returns null)
Unmounted ==
    [pc |-> "unmounted", researchId |-> NoId, timeLimit |-> 0, startTime |-> 0,
     timeRemaining |-> 0, showExtendButton |-> FALSE, isExtending |-> FALSE,
     extended |-> 0]

EnsureCallers == {"startup", "authorize", "createAnonymousUser"}

IdleEnsure == [pc |-> "idle", existingUsers |-> << >>]

Init ==
    /\ controls = Unmounted
    /\ clientNow = 0
    /\ inMemoryUsers = << >>
    /\ ensure = [p \in EnsureCallers |-> IdleEnsure]
    /\ inMemoryChats = << >>
    /\ inMemoryMessages = << >>
    /\ inMemoryVotes = << >>
    /\ inMemoryDocuments = << >>
    /\ timeoutExtensions = {}
    /\ worker = [id \in Ids |-> IdleWorker]
    /\ term = [c \in Users |-> IdleTerm]
    /\ resp = NoResp
    /\ now = 0
    /\ unobserved = [id \in Ids |-> FALSE]
    /\ reqSince = [id \in Ids |-> 0]
    /\ collapsed = [id \in Ids |-> 0]
    /\ terminated = [id \in Ids |-> FALSE]

----------------------------------------------------------------------------
(* The job submission that creates a session: pending -> running at once *)

CreateSession(id, u, topic) ==
    /\ ~Created(id)
    /\ getDocumentById(inMemoryDocuments, id) = << >>
    /\ Len(inMemoryDocuments) < MaxDocs
    /\ LET w == [pc |-> "consume", userId |-> u, topic |-> topic, startTime |-> now,
                 status |-> "running", timeLimitSeconds |-> DefaultTimeLimit,
                 currentDepth |-> 0, completedSteps |-> 0,
                 totalExpectedSteps |-> MaxSteps, extensionPending |-> FALSE]
       IN  /\ worker' = [worker EXCEPT ![id] = w]
           /\ inMemoryDocuments' = workerSave(inMemoryDocuments, id, w)
    /\ UNCHANGED <<timeoutExtensions, term, resp, now, unobserved, reqSince, collapsed, terminated>>
    /\ UNCHANGED <<clientVars, dbVars>>

Tick ==
    /\ now + TickSeconds <= MaxNow
    /\ now' = now + TickSeconds
    /\ UNCHANGED <<inMemoryDocuments, timeoutExtensions, worker, term, resp,
                   unobserved, reqSince, collapsed, terminated>>
    /\ UNCHANGED <<clientVars, dbVars>>

\* some other part of the application saves a text document that is not a research
\* state under an id
SaveTextDocument(id, u) ==
    /\ Len(inMemoryDocuments) < MaxDocs
    /\ inMemoryDocuments' = saveDocument(inMemoryDocuments, id, "draft", "text", PlainText, u)
    /\ UNCHANGED <<timeoutExtensions, worker, term, resp, now, unobserved, reqSince,
                   collapsed, terminated>>
    /\ UNCHANGED <<clientVars, dbVars>>

----------------------------------------------------------------------------
(* POST /research *)

\* POST without a caller identity: 401 before the action is looked at
PostUnauthorized(id, action) ==
    /\ resp' = [NoResp EXCEPT !.op = action, !.caller = NoUser, !.id = id,
                !.code = postResponse(NoUser, action, FALSE).code,
                !.body = postResponse(NoUser, action, FALSE).body,
                !.rel = Relation(NoUser, id)]
    /\ UNCHANGED <<inMemoryDocuments, timeoutExtensions, worker, term, now,
                   unobserved, reqSince, collapsed, terminated>>
    /\ UNCHANGED <<clientVars, dbVars>>

\* POST whose body is not JSON, from any caller
PostUnparsable(c) ==
    /\ LET r == postRequest(FALSE, c, "unparsable", FALSE)
       IN  resp' = [NoResp EXCEPT !.op = "unparsable", !.caller = c,
                    !.code = r.code, !.body = r.body]
    /\ UNCHANGED <<inMemoryDocuments, timeoutExtensions, worker, term, now,
                   unobserved, reqSince, collapsed, terminated>>
    /\ UNCHANGED <<clientVars, dbVars>>

\* action 'terminate': requestTermination runs up to `await getDocumentById`
TerminateCall(c, id) ==
    /\ term[c].pc = "idle"
    /\ term' = [term EXCEPT ![c] =
                   [pc |-> "loaded", id |-> id,
                    found |-> getDocumentById(inMemoryDocuments, id),
                    rel |-> Relation(c, id)]]
    /\ UNCHANGED <<inMemoryDocuments, timeoutExtensions, worker, resp, now,
                   unobserved, reqSince, collapsed, terminated>>
    /\ UNCHANGED <<clientVars, dbVars>>

\* the continuation: parse, ownership check, status assignment, saveDocument, response
TerminateReturn(c) ==
    /\ term[c].pc = "loaded"
    /\ LET t == term[c]
           result == requestTerminationResult(t.found, c)
           r == postResponse(c, "terminate", result)
       IN  /\ result => Len(inMemoryDocuments) < MaxDocs
           /\ inMemoryDocuments' =
                 requestTerminationStore(inMemoryDocuments, t.found, t.id, c)
           /\ resp' = [NoResp EXCEPT !.op = "terminate", !.caller = c, !.id = t.id,
                       !.code = r.code, !.body = r.body, !.rel = t.rel]
           /\ terminated' =
                 IF result /\ t.found[1].content.status = "running"
                 THEN [terminated EXCEPT ![t.id] = TRUE] ELSE terminated
    /\ term' = [term EXCEPT ![c] = IdleTerm]
    /\ UNCHANGED <<timeoutExtensions, worker, now, unobserved, reqSince, collapsed>>
    /\ UNCHANGED <<clientVars, dbVars>>

\* action 'extend_timeout': requestTimeoutExtension(researchId)
ExtendTimeout(c, id) ==
    /\ LET r == postResponse(c, "extend_timeout", TRUE)
       IN  resp' = [NoResp EXCEPT !.op = "extend_timeout", !.caller = c, !.id = id,
                    !.code = r.code, !.body = r.body, !.rel = Relation(c, id)]
    /\ timeoutExtensions' = requestTimeoutExtension(timeoutExtensions, id)
    /\ unobserved' = [unobserved EXCEPT ![id] = TRUE]
    /\ reqSince' = [reqSince EXCEPT ![id] = IF @ < MaxReq THEN @ + 1 ELSE @]
    /\ UNCHANGED <<inMemoryDocuments, worker, term, now, collapsed, terminated>>
    /\ UNCHANGED <<clientVars, dbVars>>

\* any other action: the switch's default branch
InvalidAction(c, id) ==
    /\ LET r == postResponse(c, "other", FALSE)
       IN  resp' = [NoResp EXCEPT !.op = "other", !.caller = c, !.id = id,
                    !.code = r.code, !.body = r.body, !.rel = Relation(c, id)]
    /\ UNCHANGED <<inMemoryDocuments, timeoutExtensions, worker, term, now,
                   unobserved, reqSince, collapsed, terminated>>
    /\ UNCHANGED <<clientVars, dbVars>>

(* GET /research?id= *)

\* variant: the status read deletes the extension flag of the id
GetStatus_consumes(c, id) ==
    /\ LET r == getResponse(inMemoryDocuments, id, c)
       IN  resp' = [NoResp EXCEPT !.op = "get_status", !.caller = c, !.id = id,
                    !.code = r.code, !.body = r.body, !.data = r.data,
                    !.rel = Relation(c, id)]
    /\ timeoutExtensions' = clearTimeoutExtension(timeoutExtensions, id)
    /\ UNCHANGED <<inMemoryDocuments, worker, term, now,
                   unobserved, reqSince, collapsed, terminated>>
    /\ UNCHANGED <<clientVars, dbVars>>

GetStatus(c, id) ==
    /\ LET r == getResponse(inMemoryDocuments, id, c)
       IN  resp' = [NoResp EXCEPT !.op = "get_status", !.caller = c, !.id = id,
                    !.code = r.code, !.body = r.body, !.data = r.data,
                    !.rel = Relation(c, id)]
    /\ UNCHANGED <<inMemoryDocuments, timeoutExtensions, worker, term, now,
                   unobserved, reqSince, collapsed, terminated>>
    /\ UNCHANGED <<clientVars, dbVars>>

----------------------------------------------------------------------------
(* lib/db/queries: the user store, and its callers in app/(auth)/auth.ts *)

DEFAULT_USER_ID == "default_fixed_user_id"
DEFAULT_USER_EMAIL == "default@example.com"
AnonymousEmail == "anon@anonymous.user"

\* inMemoryUsers.filter(u => u.email === email)
getUser(users, email) == SelectSeq(users, LAMBDA u : u.email = email)

\* ensureDefaultUserExists up to `await getUser(email)`: the filter has run on the
\* array as it is now and the call is suspended
EnsureCall(p) ==
    /\ ensure[p].pc = "idle"
    /\ ensure' = [ensure EXCEPT ![p] =
                     [pc |-> "awaiting",
                      existingUsers |-> getUser(inMemoryUsers, DEFAULT_USER_EMAIL)]]
    /\ UNCHANGED <<inMemoryUsers, inMemoryChats, inMemoryMessages, inMemoryVotes,
                   researchVars, clientVars>>

\* the continuation: return existingUsers[0], or push the default user
EnsureReturn(p) ==
    /\ ensure[p].pc = "awaiting"
    /\ IF Len(ensure[p].existingUsers) > 0
       THEN UNCHANGED inMemoryUsers
       ELSE /\ Len(inMemoryUsers) < MaxUsers
            /\ inMemoryUsers' =
                  Append(inMemoryUsers,
                         [id |-> DEFAULT_USER_ID, email |-> DEFAULT_USER_EMAIL])
    /\ ensure' = [ensure EXCEPT ![p] =
                     [pc |-> IF p = "createAnonymousUser" THEN "creating" ELSE "idle",
                      existingUsers |-> << >>]]
    /\ UNCHANGED <<inMemoryChats, inMemoryMessages, inMemoryVotes,
                   researchVars, clientVars>>

\* createAnonymousUser after its ensureDefaultUserExists: createUser(anonymousEmail, ..)
CreateAnonymousUser(p) ==
    /\ ensure[p].pc = "creating"
    /\ Len(inMemoryUsers) < MaxUsers
    /\ inMemoryUsers' = Append(inMemoryUsers, [id |-> "user_anon", email |-> AnonymousEmail])
    /\ ensure' = [ensure EXCEPT ![p] = IdleEnsure]
    /\ UNCHANGED <<inMemoryChats, inMemoryMessages, inMemoryVotes,
                   researchVars, clientVars>>

----------------------------------------------------------------------------
(* lib/db/queries: chats, messages and votes *)

ChatIds == {"c1", "c2"}
MessageIds == {"m1", "m2", "m3"}

\* Array.prototype.findIndex on chatId / id / messageId: 0 stands for -1
RECURSIVE findIndexByChatId(_, _, _)
findIndexByChatId(arr, id, i) ==
    IF i > Len(arr) THEN 0
    ELSE IF arr[i].chatId = id THEN i
    ELSE findIndexByChatId(arr, id, i + 1)

RECURSIVE findIndexById(_, _, _)
findIndexById(arr, id, i) ==
    IF i > Len(arr) THEN 0
    ELSE IF arr[i].id = id THEN i
    ELSE findIndexById(arr, id, i + 1)

RECURSIVE findIndexByMessageId(_, _, _)
findIndexByMessageId(arr, id, i) ==
    IF i > Len(arr) THEN 0
    ELSE IF arr[i].messageId = id THEN i
    ELSE findIndexByMessageId(arr, id, i + 1)

\* arr.splice(i, 1) when the index was found, arr untouched when it was not
spliceOne(arr, i) ==
    IF i = 0 THEN arr
    ELSE SubSeq(arr, 1, i - 1) \o SubSeq(arr, i + 1, Len(arr))

\* saveChat: push; the caller saves a chat under an id that is not in use
SaveChat(id, u) ==
    /\ findIndexById(inMemoryChats, id, 1) = 0
    /\ inMemoryChats' = Append(inMemoryChats, [id |-> id, userId |-> u])
    /\ UNCHANGED <<inMemoryUsers, ensure, inMemoryMessages, inMemoryVotes,
                   researchVars, clientVars>>

\* saveMessages with one message of an existing chat: push
SaveMessages(chatId, messageId) ==
    /\ findIndexById(inMemoryChats, chatId, 1) # 0
    /\ findIndexById(inMemoryMessages, messageId, 1) = 0
    /\ Len(inMemoryMessages) < MaxMessages
    /\ inMemoryMessages' = Append(inMemoryMessages, [id |-> messageId, chatId |-> chatId])
    /\ UNCHANGED <<inMemoryUsers, ensure, inMemoryChats, inMemoryVotes,
                   researchVars, clientVars>>

\* voteMessage on a stored message: the vote of the message is updated in place, or a
\* new vote is pushed
VoteMessage(messageId, isUpvoted) ==
    /\ findIndexById(inMemoryMessages, messageId, 1) # 0
    /\ LET chatId == inMemoryMessages[findIndexById(inMemoryMessages, messageId, 1)].chatId
           i == findIndexByMessageId(inMemoryVotes, messageId, 1)
       IN  inMemoryVotes' =
              IF i # 0 THEN [inMemoryVotes EXCEPT ![i].isUpvoted = isUpvoted]
              ELSE Append(inMemoryVotes, [chatId |-> chatId, messageId |-> messageId,
                                          isUpvoted |-> isUpvoted])
    /\ UNCHANGED <<inMemoryUsers, ensure, inMemoryChats, inMemoryMessages,
                   researchVars, clientVars>>

\* deleteChatById: one vote, one message and the chat are spliced out, each the first
\* that findIndex returns
DeleteChatById(id) ==
    /\ inMemoryVotes' = spliceOne(inMemoryVotes, findIndexByChatId(inMemoryVotes, id, 1))
    /\ inMemoryMessages' =
          spliceOne(inMemoryMessages, findIndexByChatId(inMemoryMessages, id, 1))
    /\ inMemoryChats' = spliceOne(inMemoryChats, findIndexById(inMemoryChats, id, 1))
    /\ UNCHANGED <<inMemoryUsers, ensure, researchVars, clientVars>>

----------------------------------------------------------------------------
(* components/research-controls: the countdown presenter *)

TimeLimits == {DefaultTimeLimit, ShortTimeLimit}
StartTimes == -1 .. UnitsPerSecond + 1     \* startTime prop, in clock units
OverrunSeconds == 2    \* seconds past the budget during which the session stays active

\* Math.floor((now - start) / 1000), the clock being in units of 1000/UnitsPerSecond ms
elapsedSeconds(startTime, nowUnits) == (nowUnits - startTime) \div UnitsPerSecond

Max(a, b) == IF a >= b THEN a ELSE b

\* variant: the difference is not clamped at zero
remainingAt_noClamp(timeLimit, startTime, nowUnits) ==
    timeLimit - elapsedSeconds(startTime, nowUnits)

\* calculateTimeRemaining: Math.max(0, timeLimit - elapsed)
remainingAt(timeLimit, startTime, nowUnits) ==
    Max(0, timeLimit - elapsedSeconds(startTime, nowUnits))

\* calculateTimeRemaining: setTimeRemaining(remaining); setShowExtendButton(remaining < 90)
calculateTimeRemaining(c, nowUnits) ==
    [c EXCEPT !.pc = "ticking",
              !.timeRemaining = remainingAt(c.timeLimit, c.startTime, nowUnits),
              !.showExtendButton =
                  remainingAt(c.timeLimit, c.startTime, nowUnits) < ExtendThreshold]

\* first render of an active session: useState(timeLimit), useState(false); the
\* browser clock is counted from the instant of the first render
Mount(id, timeLimit, startTime) ==
    /\ controls.pc = "unmounted" /\ clientNow = 0
    /\ controls' = [Unmounted EXCEPT !.pc = "rendered", !.researchId = id,
                                     !.timeLimit = timeLimit, !.startTime = startTime,
                                     !.timeRemaining = timeLimit]
    /\ UNCHANGED <<clientNow, researchVars, dbVars>>

\* the effect runs after the first render: initial calculation, interval armed
EffectRun ==
    /\ controls.pc = "rendered"
    /\ controls' = calculateTimeRemaining(controls, clientNow)
    /\ UNCHANGED <<clientNow, researchVars, dbVars>>

\* the interval callback, a second or more after the previous calculation
IntervalTick(late) ==
    /\ controls.pc = "ticking"
    /\ elapsedSeconds(controls.startTime, clientNow) < controls.timeLimit + OverrunSeconds
    /\ clientNow' = clientNow + UnitsPerSecond + late
    /\ controls' = calculateTimeRemaining(controls, clientNow')
    /\ UNCHANGED <<researchVars, dbVars>>

\* handleExtend up to `await fetch`: setIsExtending(true), the POST is sent
HandleExtendCall ==
    /\ controls.pc = "ticking"
    /\ controls.showExtendButton /\ ~controls.isExtending
    /\ controls.extended < MaxExtends
    /\ controls' = [controls EXCEPT !.isExtending = TRUE]
    /\ UNCHANGED <<clientNow, researchVars, dbVars>>

\* the route answers the POST of caller c and handleExtend continues: on an ok
\* response setTimeRemaining(prev => prev + 300); finally setIsExtending(false)
HandleExtendReturn(c) ==
    /\ controls.pc = "ticking" /\ controls.isExtending
    /\ LET id == controls.researchId
           r == postResponse(c, "extend_timeout", TRUE)
           ok == r.code = 200
       IN  /\ resp' = [NoResp EXCEPT !.op = "extend_timeout", !.caller = c, !.id = id,
                        !.code = r.code, !.body = r.body, !.rel = Relation(c, id)]
           /\ timeoutExtensions' =
                 IF c = NoUser THEN timeoutExtensions
                 ELSE requestTimeoutExtension(timeoutExtensions, id)
           /\ unobserved' = IF c = NoUser THEN unobserved
                            ELSE [unobserved EXCEPT ![id] = TRUE]
           /\ reqSince' = IF c = NoUser THEN reqSince
                          ELSE [reqSince EXCEPT ![id] = IF @ < MaxReq THEN @ + 1 ELSE @]
           /\ controls' =
                 [controls EXCEPT !.isExtending = FALSE,
                                  !.timeRemaining = IF ok THEN @ + ExtensionGrant ELSE @,
                                  !.extended = IF ok THEN @ + 1 ELSE @]
    /\ UNCHANGED <<inMemoryDocuments, worker, term, now, collapsed, terminated,
                   clientNow, dbVars>>

\* isActive becomes false: the interval is cleared and nothing is rendered
Unmount ==
    /\ controls.pc # "unmounted" /\ ~controls.isExtending
    /\ controls' = Unmounted
    /\ UNCHANGED <<clientNow, researchVars, dbVars>>

----------------------------------------------------------------------------
(* The worker's poll of one session *)

\* step 1, first half: checkTimeoutExtension
WorkerCheckExtension(id) ==
    /\ worker[id].pc = "consume"
    /\ LET pending == checkTimeoutExtension(timeoutExtensions, id)
       IN  /\ worker' = [worker EXCEPT ![id].pc = IF pending THEN "clear" ELSE "status",
                                       ![id].extensionPending = pending]
           /\ unobserved' = IF pending THEN [unobserved EXCEPT ![id] = FALSE]
                            ELSE unobserved
    /\ UNCHANGED <<inMemoryDocuments, timeoutExtensions, term, resp, now,
                   reqSince, collapsed, terminated>>
    /\ UNCHANGED <<clientVars, dbVars>>

\* step 1, second half: clearTimeoutExtension and the 300-second grant
WorkerClearExtension(id) ==
    /\ worker[id].pc = "clear"
    /\ Len(inMemoryDocuments) < MaxDocs
    /\ timeoutExtensions' = clearTimeoutExtension(timeoutExtensions, id)
    /\ LET w == [worker[id] EXCEPT !.pc = "status",
                                   !.timeLimitSeconds = @ + ExtensionGrant]
       IN  /\ worker' = [worker EXCEPT ![id] = w]
           /\ inMemoryDocuments' = workerSave(inMemoryDocuments, id, w)
    /\ reqSince' = [reqSince EXCEPT ![id] = 0]
    /\ collapsed' = [collapsed EXCEPT ![id] = reqSince[id]]
    /\ UNCHANGED <<term, resp, now, unobserved, terminated>>
    /\ UNCHANGED <<clientVars, dbVars>>

\* variant: the budget counts as exhausted only once elapsed time is past it
WorkerPoll_late(id) ==
    /\ worker[id].pc = "status"
    /\ LET w == worker[id] IN
       IF checkTerminationStatus(inMemoryDocuments, id)
       THEN /\ worker' = [worker EXCEPT ![id].pc = "stopped"]
            /\ UNCHANGED inMemoryDocuments
       ELSE /\ Len(inMemoryDocuments) < MaxDocs
            /\ LET w2 ==
                     IF now - w.startTime > w.timeLimitSeconds
                     THEN [w EXCEPT !.pc = "stopped", !.status = "timed_out"]
                     ELSE IF w.completedSteps + 1 >= w.totalExpectedSteps
                     THEN [w EXCEPT !.pc = "stopped", !.status = "completed",
                                    !.completedSteps = @ + 1, !.currentDepth = @ + 1]
                     ELSE [w EXCEPT !.pc = "consume",
                                    !.completedSteps = @ + 1, !.currentDepth = @ + 1]
               IN  /\ worker' = [worker EXCEPT ![id] = w2]
                   /\ inMemoryDocuments' = workerSave(inMemoryDocuments, id, w2)
    /\ UNCHANGED <<timeoutExtensions, term, resp, now, unobserved, reqSince, collapsed, terminated>>
    /\ UNCHANGED <<clientVars, dbVars>>

\* steps 2-4: termination check, budget check, one unit of work
WorkerPoll(id) ==
    /\ worker[id].pc = "status"
    /\ LET w == worker[id] IN
       IF checkTerminationStatus(inMemoryDocuments, id)
       THEN /\ worker' = [worker EXCEPT ![id].pc = "stopped"]
            /\ UNCHANGED inMemoryDocuments
       ELSE /\ Len(inMemoryDocuments) < MaxDocs
            /\ LET w2 ==
                     IF now - w.startTime >= w.timeLimitSeconds
                     THEN [w EXCEPT !.pc = "stopped", !.status = "timed_out"]
                     ELSE IF w.completedSteps + 1 >= w.totalExpectedSteps
                     THEN [w EXCEPT !.pc = "stopped", !.status = "completed",
                                    !.completedSteps = @ + 1, !.currentDepth = @ + 1]
                     ELSE [w EXCEPT !.pc = "consume",
                                    !.completedSteps = @ + 1, !.currentDepth = @ + 1]
               IN  /\ worker' = [worker EXCEPT ![id] = w2]
                   /\ inMemoryDocuments' = workerSave(inMemoryDocuments, id, w2)
    /\ UNCHANGED <<timeoutExtensions, term, resp, now, unobserved, reqSince, collapsed, terminated>>
    /\ UNCHANGED <<clientVars, dbVars>>

----------------------------------------------------------------------------

Next ==
    \/ \E id \in SessionIds, u \in Users, topic \in Topics : CreateSession(id, u, topic)
    \/ Tick
    \/ \E id \in Ids \ SessionIds, u \in Users : SaveTextDocument(id, u)
    \/ \E id \in Ids \cup {NoId}, action \in Actions : PostUnauthorized(id, action)
    \/ \E c \in Callers : PostUnparsable(c)
    \/ \E c \in Users, id \in Ids : TerminateCall(c, id)
    \/ \E c \in Users : TerminateReturn(c)
    \/ \E c \in Users, id \in Ids : ExtendTimeout(c, id)
    \/ \E c \in Users, id \in Ids : InvalidAction(c, id)
    \/ \E c \in Callers, id \in Ids \cup {NoId} : GetStatus(c, id)
    \/ \E id \in SessionIds : WorkerCheckExtension(id)
    \/ \E id \in SessionIds : WorkerClearExtension(id)
    \/ \E id \in SessionIds : WorkerPoll(id)

Spec == Init /\ [][Next]_vars

\* the requests the route answers in one step, from every caller; no worker
NextRoute ==
    \/ \E id \in SessionIds, u \in Users, topic \in Topics : CreateSession(id, u, topic)
    \/ \E id \in Ids \cup {NoId}, action \in Actions : PostUnauthorized(id, action)
    \/ \E c \in Callers : PostUnparsable(c)
    \/ \E c \in Users, id \in Ids : ExtendTimeout(c, id)
    \/ \E c \in Users, id \in Ids : InvalidAction(c, id)
    \/ \E c \in Callers, id \in Ids \cup {NoId} : GetStatus(c, id)

SpecRoute == Init /\ [][NextRoute]_vars

\* terminate and get_status over sessions and documents that are not research states
NextParse ==
    \/ \E id \in SessionIds, u \in Users, topic \in Topics : CreateSession(id, u, topic)
    \/ \E id \in Ids \ SessionIds, u \in Users : SaveTextDocument(id, u)
    \/ \E c \in Users, id \in Ids : TerminateCall(c, id)
    \/ \E c \in Users : TerminateReturn(c)
    \/ \E c \in Users, id \in Ids : GetStatus(c, id)

SpecParse == Init /\ [][NextParse]_vars

----------------------------------------------------------------------------
(* Scenario B: a session submitted at T0, extended by its owner at T0+200 and read at
   T0+300, with the worker polling at any pace *)

ExtendAt == 200     \* seconds after T0 at which the owner asks for more time
ReadAt == 300       \* seconds after T0 at which the status is read
ScenarioEnd == 600  \* last clock value of the scenario, past the extended budget
ScenarioTimes == {ExtendAt, ReadAt, ScenarioEnd}

SubmitAtT0(id, u, topic) == now = 0 /\ CreateSession(id, u, topic)

Advance(t) ==
    /\ t > now
    /\ now' = t
    /\ UNCHANGED <<inMemoryDocuments, timeoutExtensions, worker, term, resp,
                   unobserved, reqSince, collapsed, terminated>>
    /\ UNCHANGED <<clientVars, dbVars>>

OwnerExtends(id) ==
    /\ Created(id)
    /\ now - worker[id].startTime = ExtendAt
    /\ ExtendTimeout(Owner(id), id)

NextScenarioB ==
    \/ \E id \in SessionIds, u \in Users, topic \in Topics : SubmitAtT0(id, u, topic)
    \/ \E t \in ScenarioTimes : Advance(t)
    \/ \E id \in SessionIds : OwnerExtends(id)
    \/ \E id \in SessionIds : WorkerCheckExtension(id)
    \/ \E id \in SessionIds : WorkerClearExtension(id)
    \/ \E id \in SessionIds : WorkerPoll(id)
    \/ \E c \in Users, id \in SessionIds : GetStatus(c, id)

SpecScenarioB == Init /\ [][NextScenarioB]_vars

\* the countdown presenter of one session and the route that answers its extend
NextControls ==
    \/ \E id \in SessionIds, timeLimit \in TimeLimits, startTime \in StartTimes :
          Mount(id, timeLimit, startTime)
    \/ EffectRun
    \/ \E late \in 0 .. MaxLate : IntervalTick(late)
    \/ HandleExtendCall
    \/ \E c \in Callers : HandleExtendReturn(c)
    \/ Unmount

SpecControls == Init /\ [][NextControls]_vars

\* the default-user initialization called from its three call sites
NextUsers ==
    \/ \E p \in EnsureCallers : EnsureCall(p)
    \/ \E p \in EnsureCallers : EnsureReturn(p)
    \/ \E p \in EnsureCallers : CreateAnonymousUser(p)

SpecUsers == Init /\ [][NextUsers]_vars

\* chats with their messages and votes, saved and deleted
NextChats ==
    \/ \E id \in ChatIds, u \in Users : SaveChat(id, u)
    \/ \E chatId \in ChatIds, messageId \in MessageIds : SaveMessages(chatId, messageId)
    \/ \E messageId \in MessageIds, isUpvoted \in BOOLEAN : VoteMessage(messageId, isUpvoted)
    \/ \E id \in ChatIds : DeleteChatById(id)

SpecChats == Init /\ [][NextChats]_vars

(* Scenario A: a session submitted at T0 that is neither extended nor terminated; the
   clock passes one second short of the budget, the budget, and beyond *)

BudgetTimes == {DefaultTimeLimit - 1, DefaultTimeLimit, ScenarioEnd}

WorkerStep(id) == WorkerCheckExtension(id) \/ WorkerPoll(id)

NextScenarioA ==
    \/ \E id \in SessionIds, u \in Users, topic \in Topics : SubmitAtT0(id, u, topic)
    \/ \E t \in BudgetTimes : Advance(t)
    \/ \E id \in SessionIds : WorkerCheckExtension(id)
    \/ \E id \in SessionIds : WorkerPoll(id)
    \/ \E c \in Users, id \in Ids : GetStatus(c, id)

\* the worker polls on a bounded cadence: a poll step that stays possible is taken
SpecScenarioA ==
    /\ Init /\ [][NextScenarioA]_vars
    /\ \A id \in SessionIds : WF_vars(WorkerStep(id))

\* the session store under terminate, get_status and the worker; no extension traffic
NextStore ==
    \/ \E id \in SessionIds, u \in Users, topic \in Topics : CreateSession(id, u, topic)
    \/ Tick
    \/ \E c \in Users, id \in Ids : TerminateCall(c, id)
    \/ \E c \in Users : TerminateReturn(c)
    \/ \E c \in Users, id \in Ids : GetStatus(c, id)
    \/ \E id \in SessionIds : WorkerCheckExtension(id)
    \/ \E id \in SessionIds : WorkerPoll(id)

SpecStore == Init /\ [][NextStore]_vars

\* the extension signal registry under extend_timeout and the worker's consume
NextRegistry ==
    \/ \E id \in SessionIds, u \in Users, topic \in Topics : CreateSession(id, u, topic)
    \/ Tick
    \/ \E c \in Users, id \in Ids : ExtendTimeout(c, id)
    \/ \E id \in SessionIds : WorkerCheckExtension(id)
    \/ \E id \in SessionIds : WorkerClearExtension(id)
    \/ \E id \in SessionIds : WorkerPoll(id)

SpecRegistry == Init /\ [][NextRegistry]_vars

----------------------------------------------------------------------------
(* Properties *)

\* a step of the route's handlers: the worker's state and the clock stay as they are
RouteStep == worker' = worker /\ now' = now

\* the step in which caller c's requestTermination resumes and POST answers
TerminateReturns(c) == term[c].pc = "loaded" /\ term'[c].pc = "idle"

\* C1: once the status committed last for a session is manually_terminated, timed_out
\* or completed, no command of the route (terminate, extend_timeout, get_status)
\* changes the session's committed status.
C1_MonotonicStatus ==
    [][\A id \in SessionIds :
          (/\ Created(id)
           /\ RouteStep
           /\ latestState(inMemoryDocuments, id).status \in Terminal)
          => latestState(inMemoryDocuments', id).status
                = latestState(inMemoryDocuments, id).status]_vars

\* C2: after the owner's terminate of a running session has returned success, the
\* worker's termination check returns true and the owner's get_status reports
\* manually_terminated.
C2_TerminationVisible ==
    \A id \in SessionIds :
        terminated[id] =>
            /\ checkTerminationStatus(inMemoryDocuments, id)
            /\ LET r == getResponse(inMemoryDocuments, id, Owner(id))
               IN  r.code = 200 /\ r.data[1].status = "manually_terminated"

\* C3: to a caller who is not the session's userId, terminate and get_status answer
\* with one and the same 404 response whether the session exists under another owner
\* or does not exist; no 403 is produced.
C3_OwnershipIsolation ==
    /\ resp.code # 403
    /\ (resp.op \in {"terminate", "get_status"} /\ resp.caller \in Users
            /\ resp.rel \in {"absent", "foreign"})
        => /\ resp.code = 404
           /\ resp.data = << >>
           /\ resp.body = IF resp.op = "terminate" THEN TerminateFailedBody
                          ELSE NotFoundBody

\* witness of C3: get_status by a non-owner of an existing session was answered 404
C3_Witness ==
    resp.op = "get_status" /\ resp.rel = "foreign" /\ resp.code = 404

\* the step in which POST handles extend_timeout
ExtendStep ==
    /\ RouteStep
    /\ term' = term
    /\ inMemoryDocuments' = inMemoryDocuments
    /\ resp'.op = "extend_timeout"

\* C4: extend_timeout by a caller who does not own the session, or for an id that does
\* not exist, is answered 404 and registers no extension signal.
C4_ExtendVerifiesOwnership ==
    [][(ExtendStep /\ resp'.rel # "owner")
          => (resp'.code = 404 /\ timeoutExtensions' = timeoutExtensions)]_vars

\* C5: a terminate by a non-owner on an existing session is answered with the
\* not-found-or-forbidden error and leaves the document store as it was.
C5_NonOwnerTerminateNoEffect ==
    [][\A c \in Users :
          (TerminateReturns(c) /\ term[c].rel = "foreign")
          => /\ inMemoryDocuments' = inMemoryDocuments
             /\ resp'.code = 404
             /\ resp'.body = TerminateFailedBody]_vars

\* witness of C5: a non-owner's terminate on an existing session has been answered
C5_Witness ==
    /\ resp.op = "terminate" /\ resp.rel = "foreign" /\ resp.code = 404
    /\ getDocumentById(inMemoryDocuments, resp.id) # << >>

\* nothing is in flight for the session: the worker has stopped, no terminate is pending
Quiescent(id) ==
    worker[id].pc = "stopped" /\ \A c \in Users : term[c].pc = "idle"

\* the record holds the worker's latest counters and budget and a terminal status
Merged(state, id) ==
    /\ state.status \in Terminal
    /\ state.currentDepth = worker[id].currentDepth
    /\ state.completedSteps = worker[id].completedSteps
    /\ state.timeLimitSeconds = worker[id].timeLimitSeconds

\* C6: when an owner's terminate and the worker's writes to one session are all done,
\* the record read back holds the worker's latest counters and budget together with a
\* terminal status (read through getDocumentById or as the version saved last).
C6_NoLostUpdate ==
    \A id \in SessionIds :
        (Quiescent(id) /\ terminated[id])
        => \/ Merged(getDocumentById(inMemoryDocuments, id)[1].content, id)
           \/ Merged(latestState(inMemoryDocuments, id), id)

\* C7: an extend_timeout request that no check has returned yet is still pending.
C7_SignalNeverLost ==
    \A id \in Ids :
        unobserved[id] => checkTimeoutExtension(timeoutExtensions, id)

\* the step in which the worker clears the signal and applies the grant
ClearStep(id) == worker[id].pc = "clear" /\ worker'[id].pc = "status"

\* C8: however many extend_timeout calls precede a consume, one signal is pending,
\* the consume raises timeLimitSeconds by exactly 300 seconds, and with no new request
\* no signal is pending afterwards, so the next check returns false and grants nothing.
C8_ExtensionsCollapse ==
    /\ [](\A id \in Ids :
             (reqSince[id] = 0) <=> ~checkTimeoutExtension(timeoutExtensions, id))
    /\ [][\A id \in SessionIds :
             /\ ClearStep(id)
                 => /\ worker'[id].timeLimitSeconds
                          = worker[id].timeLimitSeconds + ExtensionGrant
                    /\ ~checkTimeoutExtension(timeoutExtensions', id)
             /\ (Created(id) /\ ~ClearStep(id))
                 => worker'[id].timeLimitSeconds = worker[id].timeLimitSeconds]_vars

\* witness of C8: two requests were answered by one grant, and a later check of the
\* worker returned false
C8_Witness ==
    \E id \in SessionIds :
        /\ collapsed[id] >= 2
        /\ worker[id].timeLimitSeconds = DefaultTimeLimit + ExtensionGrant
        /\ worker[id].pc = "status"
        /\ ~worker[id].extensionPending
        /\ reqSince[id] = 0

\* the fields of a session a client can observe
Observable(state) ==
    [status |-> state.status, startTime |-> state.startTime, topic |-> state.topic,
     currentDepth |-> state.currentDepth, completedSteps |-> state.completedSteps,
     totalExpectedSteps |-> state.totalExpectedSteps]

C10_SingleRecordPerId ==
    [][\A c \in Users :
          (TerminateReturns(c) /\ term[c].rel = "owner")
          => Len(getDocumentsById(inMemoryDocuments', term[c].id)) = 1]_vars

\* a later reading of a session keeps id, userId, topic and startTime and lowers
\* neither the budget nor a progress counter
NeverRegresses(before, after) ==
    /\ after.id = before.id
    /\ after.userId = before.userId
    /\ after.topic = before.topic
    /\ after.startTime = before.startTime
    /\ after.timeLimitSeconds >= before.timeLimitSeconds
    /\ after.currentDepth >= before.currentDepth
    /\ after.completedSteps >= before.completedSteps
    /\ after.totalExpectedSteps >= before.totalExpectedSteps

\* C11: across every step, a session read back from the store (the record
\* getDocumentById returns, and the version saved last) keeps its id, userId, topic
\* and startTime, and its timeLimitSeconds and progress counters do not decrease.
C11_FieldsImmutableMonotone ==
    [][\A id \in SessionIds :
          Created(id)
          => /\ NeverRegresses(getDocumentById(inMemoryDocuments, id)[1].content,
                               getDocumentById(inMemoryDocuments', id)[1].content)
             /\ NeverRegresses(latestState(inMemoryDocuments, id),
                               latestState(inMemoryDocuments', id))]_vars

\* a step in which POST answers a successful extend_timeout
ExtendSucceeds ==
    /\ worker' = worker /\ now' = now
    /\ resp'.op = "extend_timeout" /\ resp'.code = 200

\* C12: a successful extend_timeout sets the pending flag of the id it names and of
\* no other id, and leaves the stored documents (timeLimitSeconds, status and every
\* other field) and the in-flight terminate calls as they were.
C12_ExtendFrame ==
    [][ExtendSucceeds
       => /\ resp'.id \in timeoutExtensions'
          /\ \A id \in Ids \ {resp'.id} :
                (id \in timeoutExtensions') = (id \in timeoutExtensions)
          /\ inMemoryDocuments' = inMemoryDocuments
          /\ term' = term]_vars

\* an extension granted to one id while another id's flag is pending and a session
\* is stored
C12_Witness ==
    /\ resp.op = "extend_timeout" /\ resp.code = 200
    /\ resp.id \in timeoutExtensions
    /\ \E id \in timeoutExtensions : id # resp.id
    /\ Len(inMemoryDocuments) > 0

\* a step in which GET answers
StatusRead == resp' # resp /\ resp'.op = "get_status"

\* C13: a status read, by any caller on any id and with any of its outcomes (200, 400,
\* 401, 404), changes neither the document store nor the extension flags nor an
\* in-flight terminate; a pending extension signal is still pending after it.
C13_GetStatusNoSideEffects ==
    [][StatusRead
       => /\ resp'.code \in {200, 400, 401, 404}
          /\ inMemoryDocuments' = inMemoryDocuments
          /\ timeoutExtensions' = timeoutExtensions
          /\ term' = term /\ worker' = worker]_vars

\* the owner has read the status of a session whose extension signal is pending
C13_Witness ==
    /\ resp.op = "get_status" /\ resp.code = 200
    /\ resp.id \in timeoutExtensions

\* a step in which a request that carries no caller identity is answered
UnauthenticatedRequest == resp' # resp /\ resp'.caller = NoUser

\* C14: every POST and GET without a caller identity is answered 401 and changes no
\* state, whatever else the request holds (missing id, unknown action, absent or
\* foreign researchId, body that does not parse).
C14_UnauthenticatedIs401 ==
    [][UnauthenticatedRequest
       => /\ resp'.code = 401
          /\ inMemoryDocuments' = inMemoryDocuments
          /\ timeoutExtensions' = timeoutExtensions]_vars

\* a step in which an authenticated POST with an action other than terminate and
\* extend_timeout is answered
UnknownAction == resp' # resp /\ resp'.op = "other" /\ resp'.caller \in Users

\* C16: an authenticated POST whose action is neither terminate nor extend_timeout
\* is answered 400 'Invalid action' and changes neither the document store nor the
\* extension flags.
C16_InvalidActionIs400 ==
    [][UnknownAction
       => /\ resp'.code = 400 /\ resp'.body = InvalidActionBody
          /\ inMemoryDocuments' = inMemoryDocuments
          /\ timeoutExtensions' = timeoutExtensions]_vars

\* the owner of a session with a pending extension signal has sent an unknown action
C16_Witness ==
    /\ resp.op = "other" /\ resp.caller \in Users /\ resp.code = 400
    /\ resp.rel = "owner"
    /\ resp.id \in timeoutExtensions

\* the document getDocumentById returns for the id exists and its content does not parse
Unparsable(docs, id) ==
    /\ getDocumentById(docs, id) # << >>
    /\ JSONparse(getDocumentById(docs, id)[1].content) = << >>

\* C15: when the stored content of the named document cannot be parsed, terminate and
\* get_status answer 500 (not 404, not a success), the handler answers, and the
\* store and the extension flags are unchanged.
C15_ParseFailureIs500 ==
    [][/\ \A c \in Users :
             (/\ TerminateReturns(c)
              /\ term[c].found # << >>
              /\ JSONparse(term[c].found[1].content) = << >>)
             => /\ resp'.op = "terminate" /\ resp'.code = 500
                /\ inMemoryDocuments' = inMemoryDocuments
                /\ timeoutExtensions' = timeoutExtensions
       /\ (/\ resp' # resp /\ resp'.op = "get_status"
           /\ Unparsable(inMemoryDocuments, resp'.id))
          => /\ resp'.code = 500
             /\ inMemoryDocuments' = inMemoryDocuments
             /\ timeoutExtensions' = timeoutExtensions]_vars

\* C17: the status a 200 terminate response carries is the status stored for the
\* session, manually_terminated, and the status a get_status by the same caller
\* returns right after it.
C17_ResponseStatusIsStored ==
    [][\A c \in Users :
          (TerminateReturns(c) /\ resp'.op = "terminate" /\ resp'.code = 200)
          => /\ resp'.body = "manually_terminated"
             /\ resp'.body = latestState(inMemoryDocuments', resp'.id).status
             /\ resp'.body =
                   getResponse(inMemoryDocuments', resp'.id, c).data[1].status]_vars

\* C18: the data of a 200 get_status response has exactly the fields id, status,
\* topic, progress {currentDepth, completedSteps, totalSteps} and startTime, each
\* equal to the field of the stored record the handler read (totalSteps to its
\* totalExpectedSteps), and neither timeLimitSeconds nor userId.
C18_RestrictedProjection ==
    (resp.op = "get_status" /\ resp.code = 200)
    => LET data == resp.data[1]
           stored == JSONparse(getDocumentById(inMemoryDocuments, resp.id)[1].content)[1]
       IN  /\ DOMAIN data = {"id", "status", "topic", "progress", "startTime"}
           /\ DOMAIN data.progress = {"currentDepth", "completedSteps", "totalSteps"}
           /\ data.id = stored.id /\ data.id = resp.id
           /\ data.status = stored.status
           /\ data.topic = stored.topic
           /\ data.startTime = stored.startTime
           /\ data.progress.currentDepth = stored.currentDepth
           /\ data.progress.completedSteps = stored.completedSteps
           /\ data.progress.totalSteps = stored.totalExpectedSteps
           /\ {"timeLimitSeconds", "userId"} \subseteq DOMAIN stored

\* the owner has read the status of a session that was created some time ago
C18_Witness ==
    /\ resp.op = "get_status" /\ resp.code = 200
    /\ resp.rel = "owner"
    /\ now > 0
    /\ Len(getDocumentsById(inMemoryDocuments, resp.id)) > 1

\* the worker's poll of id performs its checkTimeoutExtension
CheckStep(id) == worker[id].pc = "consume" /\ worker'[id].pc # "consume"

\* the worker's poll of id evaluates the budget and finds it exhausted
TimesOut(id) == worker[id].status = "running" /\ worker'[id].status = "timed_out"

ExtendedLimit == DefaultTimeLimit + ExtensionGrant

\* C19 (Scenario B): with the owner's extend_timeout at T0+200 pending, the worker's
\* next poll gets true from the check and clears the flag, raising timeLimitSeconds
\* from 270 to 570 in its state and in the store before it evaluates the budget; the
\* flag is not pending after the clear; the budget is evaluated against the raised
\* limit, so the session is not timed_out at T0+300, and a get_status at T0+300
\* reports running.
C19_ScenarioB ==
    /\ [][\A id \in SessionIds :
             /\ (CheckStep(id) /\ id \in timeoutExtensions)
                => worker'[id].pc = "clear" /\ worker'[id].extensionPending
             /\ (ClearStep(id) /\ worker[id].timeLimitSeconds = DefaultTimeLimit)
                => /\ worker'[id].timeLimitSeconds = ExtendedLimit
                   /\ latestState(inMemoryDocuments', id).timeLimitSeconds = ExtendedLimit
                   /\ worker'[id].status = "running"
             /\ ClearStep(id) => id \notin timeoutExtensions'
             /\ TimesOut(id)
                => /\ worker[id].pc = "status"
                   /\ now - worker[id].startTime >= worker[id].timeLimitSeconds
                   /\ worker[id].extensionPending
                      => worker[id].timeLimitSeconds >= ExtendedLimit]_vars
    /\ [](\A id \in SessionIds :
             (/\ Created(id)
              /\ worker[id].timeLimitSeconds >= ExtendedLimit
              /\ now - worker[id].startTime <= ReadAt)
             => /\ worker[id].status # "timed_out"
                /\ latestState(inMemoryDocuments, id).status # "timed_out")
    /\ []((/\ resp.op = "get_status" /\ resp.code = 200
           /\ now - worker[resp.id].startTime = ReadAt)
          => resp.data[1].status = "running")

\* the owner reads the status at T0+300 of a session whose extension was consumed:
\* limit 570, flag cleared, worker still running
C19_Witness ==
    /\ resp.op = "get_status" /\ resp.code = 200 /\ resp.rel = "owner"
    /\ now - worker[resp.id].startTime = ReadAt
    /\ worker[resp.id].timeLimitSeconds = ExtendedLimit
    /\ latestState(inMemoryDocuments, resp.id).timeLimitSeconds = ExtendedLimit
    /\ collapsed[resp.id] = 1
    /\ resp.id \notin timeoutExtensions
    /\ worker[resp.id].status = "running"
    /\ resp.data[1].status = "running"

\* the worker's poll of id performs its termination and budget checks
PollStep(id) == worker[id].pc = "status" /\ worker'[id].pc # "status"

\* C20 (Scenario A): a session with limit 270 that is neither extended nor terminated
\* is set to timed_out, in the worker and in the store, by the poll that finds elapsed
\* time at or past the budget; it is never timed_out while elapsed time is below
\* timeLimitSeconds; and a running session eventually has a terminal status.
C20_ScenarioA ==
    /\ [][\A id \in SessionIds :
             /\ (PollStep(id) /\ now - worker[id].startTime >= worker[id].timeLimitSeconds)
                => /\ worker'[id].status = "timed_out"
                   /\ latestState(inMemoryDocuments', id).status = "timed_out"
             /\ TimesOut(id)
                => /\ PollStep(id)
                   /\ now - worker[id].startTime >= worker[id].timeLimitSeconds]_vars
    /\ [](\A id \in SessionIds :
             (Created(id) /\ now - worker[id].startTime < worker[id].timeLimitSeconds)
             => /\ worker[id].status # "timed_out"
                /\ latestState(inMemoryDocuments, id).status # "timed_out")
    /\ \A id \in SessionIds :
          (Created(id) /\ worker[id].status = "running")
          ~> (worker[id].status \in Terminal
              /\ latestState(inMemoryDocuments, id).status = worker[id].status)

\* the session was still running one poll before and is timed_out exactly at the budget
C20_Witness ==
    \E id \in SessionIds :
        /\ worker[id].status = "timed_out"
        /\ latestState(inMemoryDocuments, id).status = "timed_out"
        /\ worker[id].timeLimitSeconds = DefaultTimeLimit
        /\ now - worker[id].startTime = DefaultTimeLimit
        /\ worker[id].completedSteps > 0
        /\ id \notin timeoutExtensions

----------------------------------------------------------------------------
(* The countdown presenter *)

\* a step in which calculateTimeRemaining runs: the initial calculation or a tick
Calculates ==
    /\ controls'.pc = "ticking"
    /\ controls.pc = "rendered" \/ clientNow' # clientNow

\* a step in which the interval callback runs
Ticks == controls.pc = "ticking" /\ clientNow' # clientNow

\* whole seconds between the startTime prop and the browser clock after the step
ElapsedAfter == (clientNow' - controls'.startTime) \div UnitsPerSecond

\* max(0, timeLimit - elapsed) after the step
BudgetLeftAfter ==
    IF controls'.timeLimit - ElapsedAfter > 0
    THEN controls'.timeLimit - ElapsedAfter ELSE 0

C22_ExtendButtonTracksDisplay ==
    controls.pc # "unmounted"
    => (controls.showExtendButton <=> controls.timeRemaining < ExtendThreshold)

\* C23: after a successful extend_timeout response the displayed remaining time is
\* 300 seconds more than max(0, timeLimit - elapsed), and it is 300 seconds more
\* again at every following tick.
C23_OptimisticExtensionPersists ==
    [][/\ controls'.extended > controls.extended
          => controls'.timeRemaining = ExtensionGrant + BudgetLeftAfter
       /\ (Ticks /\ controls.extended > 0)
          => controls'.timeRemaining =
                controls.extended * ExtensionGrant + BudgetLeftAfter]_vars

----------------------------------------------------------------------------
(* The user store *)

\* a step in which a call of ensureDefaultUserExists returns
EnsureReturns(p) == ensure[p].pc = "awaiting" /\ ensure'[p].pc # "awaiting"

\* C24: whenever a call of ensureDefaultUserExists returns, whatever calls overlapped
\* with it at the await on getUser, the user store holds exactly one user with the
\* default email.
C24_OneDefaultUser ==
    [][\A p \in EnsureCallers :
          EnsureReturns(p)
          => Len(getUser(inMemoryUsers', DEFAULT_USER_EMAIL)) = 1]_vars

----------------------------------------------------------------------------
(* Chats *)

\* a step in which deleteChatById(id) removes the chat
DeletesChat(id) ==
    /\ findIndexById(inMemoryChats, id, 1) # 0
    /\ Len(inMemoryChats') < Len(inMemoryChats)
    /\ findIndexById(inMemoryChats', id, 1) = 0

OfOtherChats(arr, id) == SelectSeq(arr, LAMBDA x : x.chatId # id)

\* C25: after deleteChatById(id) the stores hold no chat with the id and no message
\* and no vote whose chatId is the id, and the chats, messages and votes of the other
\* chat ids are as before.
C25_DeleteChatRemovesAll ==
    [][\A id \in ChatIds :
          DeletesChat(id)
          => /\ findIndexByChatId(inMemoryMessages', id, 1) = 0
             /\ findIndexByChatId(inMemoryVotes', id, 1) = 0
             /\ SelectSeq(inMemoryChats', LAMBDA c : c.id # id)
                   = SelectSeq(inMemoryChats, LAMBDA c : c.id # id)
             /\ OfOtherChats(inMemoryMessages', id) = OfOtherChats(inMemoryMessages, id)
             /\ OfOtherChats(inMemoryVotes', id) = OfOtherChats(inMemoryVotes, id)]_vars

====
